---- MODULE Spec2Model ----
(***************************************************************************)
(* A model of the chat server of src/server: the dispatcher loop of        *)
(* cserver.main, the connection acceptor, and the inbound and outbound     *)
(* threads of every CserverClient.                                         *)
(*                                                                         *)
(* Strings are sequences of one-character strings, so that strip,          *)
(* startswith, split and the name regular expression are computed as the   *)
(* code computes them.  Python's None is the word <<"None">>, which no     *)
(* line of one-character strings can equal.                                *)
(***************************************************************************)
EXTENDS Naturals, Sequences, FiniteSets, TLC

(***************************************************************************)
(* Bounds of the model.                                                    *)
(***************************************************************************)
NumClients == 2
MaxInbound == 1
MaxOutbound == 2

Clients == 1..NumClients

(***************************************************************************)
(* Values.                                                                 *)
(***************************************************************************)
None == <<"None">>
NoTargets == <<None>>
\* Python's False, which _recv returns when recv or decode raises
False == <<"False">>

WhiteSpace == {" "}
WordChars == {"a", "b", "c", "r", "p", "u", "l", "i", "_", "0"}

public == <<"p", "u", "b", "l", "i", "c">>
Banner == <<"Welcome to the XYZ chat server">>

KwCreate == <<"/", "c", "r", "e", "a", "t", "e">>
KwRooms == <<"/", "r", "o", "o", "m", "s">>
KwJoin == <<"/", "j", "o", "i", "n">>
KwLeave == <<"/", "l", "e", "a", "v", "e">>
KwQuit == <<"/", "q", "u", "i", "t">>
KwPrivate == <<"/", "p", "r", "i", "v", "a", "t", "e">>
KwPublic == <<"/", "p", "u", "b", "l", "i", "c">>
Slash == <<"/">>

(***************************************************************************)
(* str.strip, str.startswith, str.split and re.match('\w*$', s).           *)
(***************************************************************************)
RECURSIVE lstrip(_)
lstrip(s) ==
  IF s = <<>> THEN s
  ELSE IF Head(s) \in WhiteSpace THEN lstrip(Tail(s)) ELSE s

RECURSIVE rstrip(_)
rstrip(s) ==
  IF s = <<>> THEN s
  ELSE IF s[Len(s)] \in WhiteSpace THEN rstrip(SubSeq(s, 1, Len(s) - 1)) ELSE s

strip(s) == rstrip(lstrip(s))

startswith(s, p) == Len(s) >= Len(p) /\ SubSeq(s, 1, Len(p)) = p

after(s, p) == SubSeq(s, Len(p) + 1, Len(s))

\* the longest prefix of s without white space
RECURSIVE word(_)
word(s) ==
  IF s = <<>> \/ Head(s) \in WhiteSpace THEN <<>>
  ELSE <<Head(s)>> \o word(Tail(s))

RECURSIVE split(_)
split(s) ==
  LET t == lstrip(s)
      w == word(t)
  IN IF t = <<>> THEN <<>>
     ELSE <<w>> \o split(SubSeq(t, Len(w) + 1, Len(t)))

name_re_match(s) == \A i \in 1..Len(s) : s[i] \in WordChars

(***************************************************************************)
(* sorted() of a collection of str: the order of str is the order of the   *)
(* code points, character by character.                                    *)
(***************************************************************************)
CodePoints == <<"0", "_", "a", "b", "c", "i", "l", "p", "r", "u">>

ord(ch) == CHOOSE i \in 1..Len(CodePoints) : CodePoints[i] = ch

\* s < t of two str
RECURSIVE str_lt(_, _)
str_lt(s, t) ==
  IF t = <<>> THEN FALSE
  ELSE IF s = <<>> THEN TRUE
  ELSE IF Head(s) = Head(t) THEN str_lt(Tail(s), Tail(t))
  ELSE ord(Head(s)) < ord(Head(t))

\* sorted(S) raises TypeError: None does not compare with a str
SortFails(S) == None \in S /\ Cardinality(S) > 1

RECURSIVE sorted(_)
sorted(S) ==
  IF S = {} THEN <<>>
  ELSE IF S = {None} THEN <<None>>
  ELSE LET m == CHOOSE x \in S : \A y \in S : x = y \/ str_lt(x, y)
       IN <<m>> \o sorted(S \ {m})

\* a room list in the descending order of the room names
get_room_list_descending(ru) ==
  LET rs == sorted(DOMAIN ru)
  IN [i \in 1..Len(rs) |-> <<rs[Len(rs) + 1 - i], sorted(ru[rs[Len(rs) + 1 - i]])>>]

\* the count outbound_handler shows for an entry (rn, ru) of a room list: len(ru)
shown_count(entry) == Len(entry[2])

\* cserver._get_room_list
get_room_list(ru) ==
  LET rs == sorted(DOMAIN ru)
  IN [i \in 1..Len(rs) |-> <<rs[i], sorted(ru[rs[i]])>>]

(***************************************************************************)
(* msgs.decode_msg: the kind and the payload of a line.                    *)
(***************************************************************************)
decode_msg(line) ==
  LET msg == strip(line)
  IN IF startswith(msg, KwCreate) THEN <<"CREATE_ROOM_CMD", strip(after(msg, KwCreate))>>
     ELSE IF startswith(msg, KwRooms) THEN <<"ROOMS_CMD", None>>
     ELSE IF startswith(msg, KwJoin) THEN <<"JOIN_CMD", strip(after(msg, KwJoin))>>
     ELSE IF startswith(msg, KwLeave) THEN <<"LEAVE_CMD", None>>
     ELSE IF startswith(msg, KwQuit) THEN <<"QUIT_CMD", None>>
     ELSE IF startswith(msg, KwPrivate) THEN <<"PRIVATE_CMD", split(strip(after(msg, KwPrivate)))>>
     ELSE IF startswith(msg, KwPublic) THEN <<"PUBLIC_CMD", None>>
     ELSE IF startswith(msg, Slash) THEN <<"UNKNOWN_CMD", None>>
     ELSE <<"ALL_CHAT", msg>>

(***************************************************************************)
(* The lines a client may send.                                            *)
(***************************************************************************)
NameA == <<"a">>
NameB == <<"b">>
NameC == <<"c">>
RoomR == <<"r">>
Space == <<" ">>
Empty == <<>>
Close == <<"CLOSE">>

Join(room) == KwJoin \o Space \o room
Create(room) == KwCreate \o Space \o room
Private(name) == KwPrivate \o Space \o name

\* What the peer of a client does: it sends a prefix of one of these line
\* sequences, and closes the connection where the sequence says Close.
Scripts1 ==
  { <<NameA, KwQuit, Join(public)>>,
    <<NameA, Close>>,
    <<NameA, Join(public), KwLeave, KwLeave>>,
    <<NameA, Join(public), KwLeave, KwQuit>>,
    <<NameA, Create(RoomR), Join(public), Join(RoomR)>>,
    <<NameA, Join(public), Private(NameB), NameA>>,
    <<NameA, Join(public), Private(NameA), KwPublic, NameA>>,
    <<NameA, NameB>>,
    <<NameA, Join(public), Private(NameB \o Space \o NameC)>> }

Scripts2 ==
  { <<NameA>>,
    <<NameB, Join(public), KwLeave>>,
    <<NameB, Join(public), KwQuit>>,
    <<NameB, Join(public), KwRooms>>,
    <<Empty, Slash, Create(Slash), KwCreate>> }

Scripts3 == { <<NameA>> }

ScriptsOf(c) == IF c = 1 THEN Scripts1 ELSE IF c = 2 THEN Scripts2 ELSE Scripts3

(***************************************************************************)
(* The state: the fields of every CserverClient, the two queues' contents, *)
(* the dispatcher's maps, the position of every thread, and the history    *)
(* the claims speak of.                                                    *)
(***************************************************************************)
VARIABLES
  state,            \* CserverClient.state
  username,         \* CserverClient.username
  roomname,         \* CserverClient.roomname
  targets,          \* CserverClient.targets
  outbound_queue,   \* CserverClient.outbound_queue
  sock,             \* CserverClient._csocket: none, open, peer_closed, peer_reset, closed
  inb,              \* the inbound thread: none, run, failing, done
  outb,             \* the outbound thread: none, run, failed, quit
  inbound_queue,    \* main's inbound_queue
  user_clients,     \* main's user_clients
  room_users,       \* main's room_users
  db_rooms,         \* db['rooms']
  running,          \* the dispatcher loop has not been left by an exception
  pending,          \* the client _connection_handler has constructed and not announced, or 0
  script,           \* the line sequences the peer of each client may yet send
  sentLines,        \* history: the lines the peer of each client has sent
  room_iter,        \* the outbound thread's "for un in room_users" of JOIN_ROOM: {S}
                    \* when the dispatcher changes the set during the loop, S being
                    \* the set as the loop found it, and {} otherwise
  recv_str,         \* CserverClient._recv_str of the session whose framing is followed
  reads,            \* what the calls of recv of that session's socket will return
  stream,           \* history: the bytes recv has returned to that session
  returned,         \* history: what the calls of _recv of that session returned
  framing,          \* that session's _recv: off, open, closing, closed
  last,             \* history: the event the dispatcher processed last
  registered,       \* history: the names the dispatcher registered for each client
  roundTrip,        \* history: a /join then /leave of one LOGGED_IN client
  madePublic        \* history: clients whose /public was processed, chatting since

session == <<state, username, roomname, targets, room_iter>>
threads == <<sock, inb, outb, pending>>
maps == <<user_clients, room_users, db_rooms>>
history == <<last, registered, roundTrip, madePublic>>
framer == <<recv_str, reads, stream, returned, framing>>
vars == <<session, threads, maps, outbound_queue, inbound_queue, running, script, sentLines,
          history, framer>>

NoEvent == [cmd |-> <<"NONE">>, kind |-> "NONE", state |-> "NEW", username |-> None,
            roomname |-> None, targets |-> NoTargets, crashed |-> FALSE]
NoTrip == [stage |-> "none", client |-> 0, room |-> None, before |-> {}]

\* cserver.main up to the dispatcher loop, with no client connected
ServerInit ==
  /\ state = [c \in Clients |-> "NEW"]
  /\ username = [c \in Clients |-> None]
  /\ roomname = [c \in Clients |-> None]
  /\ targets = [c \in Clients |-> NoTargets]
  /\ room_iter = [c \in Clients |-> {}]
  /\ outbound_queue = [c \in Clients |-> <<>>]
  /\ sock = [c \in Clients |-> "none"]
  /\ inb = [c \in Clients |-> "none"]
  /\ outb = [c \in Clients |-> "none"]
  /\ inbound_queue = <<>>
  /\ user_clients = <<>>
  /\ db_rooms = {public}
  /\ room_users = [r \in {public} |-> {}]
  /\ running = TRUE
  /\ pending = 0
  /\ sentLines = [c \in Clients |-> <<>>]
  /\ last = NoEvent
  /\ registered = [c \in Clients |-> {}]
  /\ roundTrip = NoTrip
  /\ madePublic = {}

\* no session's framing is followed
FramerOff ==
  /\ recv_str = <<>>
  /\ reads = <<>>
  /\ stream = <<>>
  /\ returned = <<>>
  /\ framing = "off"

Init ==
  /\ ServerInit
  /\ FramerOff
  /\ script = [c \in Clients |-> ScriptsOf(c)]

(***************************************************************************)
(* The connection acceptor: the constructor starts both threads of the     *)
(* client, and only then is the client announced to the dispatcher.        *)
(***************************************************************************)
\* CserverClient.__init__, called by _connection_handler after accept()
Accept(c) ==
  /\ pending = 0
  /\ sock[c] = "none"
  /\ \A d \in Clients : d < c => sock[d] # "none"
  /\ sock' = [sock EXCEPT ![c] = "open"]
  /\ inb' = [inb EXCEPT ![c] = "run"]
  /\ outb' = [outb EXCEPT ![c] = "run"]
  /\ pending' = c
  /\ UNCHANGED <<session, maps, outbound_queue, inbound_queue, running, script, sentLines, history, framer>>

\* _connection_handler: cmd_queue.put((CserverCmd.NEW_CLIENT, client))
Announce ==
  /\ pending # 0
  /\ inbound_queue' = Append(inbound_queue, <<"NEW_CLIENT", pending>>)
  /\ pending' = 0
  /\ UNCHANGED <<session, sock, inb, outb, maps, outbound_queue, running, script, sentLines, history, framer>>

(***************************************************************************)
(* The peer of a client and the client's inbound thread.                   *)
(***************************************************************************)
\* what the peer of c may do next, and what it may do after that
NextLines(c) == {Head(s) : s \in {t \in script[c] : t # <<>>}}

Rest(c, line) == {Tail(s) : s \in {t \in script[c] : t # <<>> /\ Head(t) = line}}

\* the peer sends its next line, _recv returns it and inbound_handler queues it;
\* every peer may send its first line at once, and a peer sends a later line
\* when fewer than MaxInbound events wait for the dispatcher
ClientLine(c) ==
  /\ sock[c] = "open"
  /\ inb[c] = "run"
  /\ (Len(inbound_queue) < MaxInbound \/ sentLines[c] = <<>>)
  /\ Len(outbound_queue[c]) <= MaxOutbound
  /\ \E line \in NextLines(c) \ {Close} :
        /\ inbound_queue' = Append(inbound_queue, <<"MSG", c, line>>)
        /\ script' = [script EXCEPT ![c] = Rest(c, line)]
        /\ sentLines' = [sentLines EXCEPT ![c] = Append(@, line)]
  /\ UNCHANGED <<session, threads, maps, outbound_queue, running, history, framer>>

\* the peer closes the connection, in order or with a reset
ClientDrop(c) ==
  /\ sock[c] = "open"
  /\ Close \in NextLines(c)
  /\ \E how \in {"peer_closed", "peer_reset"} : sock' = [sock EXCEPT ![c] = how]
  /\ script' = [script EXCEPT ![c] = Rest(c, Close)]
  /\ UNCHANGED <<session, inb, outb, pending, maps, outbound_queue, inbound_queue, sentLines,
                 running, history, framer>>

\* _recv reads no bytes and returns None: inbound_handler returns
InboundEOF(c) ==
  /\ inb[c] = "run"
  /\ sock[c] \in {"peer_closed", "closed"}
  /\ inb' = [inb EXCEPT ![c] = "done"]
  /\ UNCHANGED <<session, sock, outb, pending, maps, outbound_queue, inbound_queue,
                 running, script, sentLines, history, framer>>

\* recv raises OSError, on a connection the peer has reset or on the socket
\* the outbound thread has closed: _recv returns False, which is not None,
\* and inbound_handler queues it and calls _recv again.  The reset is
\* reported once, and the closed socket on every call; one such event of a
\* session at a time is followed
InboundError(c) ==
  /\ inb[c] \in {"run", "failing"}
  /\ sock[c] \in {"peer_reset", "closed"}
  /\ \A i \in 1..Len(inbound_queue) : inbound_queue[i] # <<"MSG", c, False>>
  /\ inbound_queue' = Append(inbound_queue, <<"MSG", c, False>>)
  /\ inb' = [inb EXCEPT ![c] = IF sock[c] = "closed" THEN "failing" ELSE "run"]
  /\ sock' = [sock EXCEPT ![c] = IF @ = "peer_reset" THEN "peer_closed" ELSE @]
  /\ UNCHANGED <<session, outb, pending, maps, outbound_queue, running, script,
                 sentLines, history, framer>>

(***************************************************************************)
(* The outbound thread: one directive of the client's queue.  The          *)
(* directive's effect on the client's fields comes before its lines are    *)
(* sent; a failed send, and a QUIT, leave the loop, and leaving it queues  *)
(* "/quit" for the dispatcher and closes the socket.                       *)
(***************************************************************************)
\* the fields of the client after the directive cmd
Effect(c, cmd) ==
  IF cmd[1] = "WELCOME_USER"
    THEN [state |-> "LOGGED_IN", username |-> cmd[2],
          roomname |-> roomname[c], targets |-> targets[c]]
  ELSE IF cmd[1] = "PRIVATE"
    THEN [state |-> state[c], username |-> username[c],
          roomname |-> roomname[c], targets |-> cmd[2]]
  ELSE IF cmd[1] = "PUBLIC"
    THEN [state |-> state[c], username |-> username[c],
          roomname |-> roomname[c], targets |-> NoTargets]
  ELSE IF cmd[1] = "JOIN_ROOM" /\ username[c] \in room_users[cmd[4]]
    THEN [state |-> "IN_ROOM", username |-> username[c],
          roomname |-> cmd[3], targets |-> targets[c]]
  ELSE IF cmd[1] = "LEAVE_ROOM"
    THEN [state |-> "LOGGED_IN", username |-> username[c],
          roomname |-> None, targets |-> NoTargets]
  ELSE [state |-> state[c], username |-> username[c],
        roomname |-> roomname[c], targets |-> targets[c]]

\* whether every _send of the directive's lines succeeds
SendResults(c) == IF sock[c] = "open" THEN {TRUE} ELSE {TRUE, FALSE}

\* the loop over the set of JOIN_ROOM began with a set of another size than
\* the set has now: the next step of the iterator raises RuntimeError
IterFails(c) ==
  /\ room_iter[c] # {}
  /\ \E S \in room_iter[c] :
        Cardinality(S) # Cardinality(room_users[Head(outbound_queue[c])[4]])

\* whether the loop had come to the session's own name when it was cut short
OwnNameSeen(c) ==
  IF \E S \in room_iter[c] : username[c] \in S THEN {TRUE, FALSE} ELSE {FALSE}

OutboundStep(c) ==
  /\ outb[c] = "run"
  /\ outbound_queue[c] # <<>>
  /\ LET cmd == Head(outbound_queue[c])
         e == Effect(c, cmd)
     IN IF IterFails(c)
          THEN \E seen \in OwnNameSeen(c) :
                 /\ state' = [state EXCEPT ![c] = IF seen THEN "IN_ROOM" ELSE @]
                 /\ roomname' = [roomname EXCEPT ![c] = IF seen THEN cmd[3] ELSE @]
                 /\ UNCHANGED <<username, targets>>
                 /\ outb' = [outb EXCEPT ![c] = "failed"]
                 /\ inbound_queue' = Append(inbound_queue, <<"MSG", c, KwQuit>>)
                 /\ sock' = [sock EXCEPT ![c] = "closed"]
          ELSE \E sent \in SendResults(c) :
                 LET quit == sent /\ cmd[1] = "QUIT"
                 IN /\ state' = [state EXCEPT ![c] = e.state]
                    /\ targets' = [targets EXCEPT ![c] = e.targets]
                    /\ username' = [username EXCEPT ![c] = IF quit THEN None ELSE e.username]
                    /\ roomname' = [roomname EXCEPT ![c] = IF quit THEN None ELSE e.roomname]
                    /\ IF sent /\ ~quit
                         THEN UNCHANGED <<outb, sock, inbound_queue>>
                         ELSE /\ outb' = [outb EXCEPT ![c] = IF sent THEN "quit" ELSE "failed"]
                              /\ inbound_queue' = Append(inbound_queue, <<"MSG", c, KwQuit>>)
                              /\ sock' = [sock EXCEPT ![c] = "closed"]
  /\ outbound_queue' = [outbound_queue EXCEPT ![c] = Tail(@)]
  /\ room_iter' = [room_iter EXCEPT ![c] = {}]
  /\ UNCHANGED <<inb, pending, maps, running, script, sentLines, history, framer>>

(***************************************************************************)
(* The dispatcher: the loop of cserver.main.  One action per branch; each  *)
(* takes the event at the head of the inbound queue and processes it to    *)
(* the end.  An exception other than KeyboardInterrupt leaves the loop     *)
(* (main catches nothing else), and the dispatcher takes no further event. *)
(***************************************************************************)
Cmd == Head(inbound_queue)

\* how many times cc occurs in user_clients.values()
Mult(cc) == Cardinality({n \in DOMAIN user_clients : user_clients[n] = cc})

Rep(d, k) == [i \in 1..k |-> d]

\* client.outbound_queue.put(d)
Put(oq, c, d) == [oq EXCEPT ![c] = Append(@, d)]

\* for cc in user_clients.values(): if cc != client and cc.state is IN_ROOM
\* and cc.roomname == room: cc.outbound_queue.put(d)
PutRoom(oq, client, room, d) ==
  [cc \in Clients |->
     IF cc # client /\ state[cc] = "IN_ROOM" /\ roomname[cc] = room
       THEN oq[cc] \o Rep(d, Mult(cc))
       ELSE oq[cc]]

\* room_users[client.roomname].remove(client.username) raises KeyError
RemoveFails(c) ==
  \/ roomname[c] \notin DOMAIN room_users
  \/ username[c] \notin room_users[roomname[c]]

\* the leave effects of /join, /leave and /quit on the room table
Removed(c) == [room_users EXCEPT ![roomname[c]] = @ \ {username[c]}]

\* the leave effects of /join, /leave and /quit on the outbound queues
LeaveQueues(oq, c) ==
  PutRoom(Put(oq, c, <<"LEAVE_ROOM", username[c], roomname[c]>>), c, roomname[c],
          <<"SEE_LEAVE_ROOM", username[c], roomname[c]>>)

\* the history of the claims, after the event Cmd of kind kind and payload payload
NextTrip(c, kind, payload) ==
  IF kind = "JOIN_CMD" /\ state[c] = "LOGGED_IN" /\ payload \in DOMAIN room_users
    THEN [stage |-> "joined", client |-> c, room |-> payload, before |-> room_users[payload]]
  ELSE IF kind = "LEAVE_CMD" /\ roundTrip.stage = "joined" /\ roundTrip.client = c
    THEN [roundTrip EXCEPT !.stage = "left"]
  ELSE NoTrip

NextPublic(c, kind) ==
  IF kind = "PUBLIC_CMD" /\ state[c] = "IN_ROOM" /\ targets[c] # NoTargets
    THEN madePublic \cup {c}
  ELSE IF kind = "ALL_CHAT" /\ state[c] = "IN_ROOM"
    THEN madePublic
  ELSE madePublic \ {c}

\* the sessions whose next directive is JOIN_ROOM with a set that this turn
\* of the dispatcher changes to ru[room]: the outbound thread of each may be
\* in its loop over that set, which is room_users[room] itself and no copy
Overtaken(ru) ==
  {cc \in Clients :
     /\ outb[cc] = "run"
     /\ outbound_queue[cc] # <<>>
     /\ Head(outbound_queue[cc])[1] = "JOIN_ROOM"
     /\ room_iter[cc] = {}
     /\ Cardinality(ru[Head(outbound_queue[cc])[4]])
          # Cardinality(room_users[Head(outbound_queue[cc])[4]])}

\* the end of one turn of the loop: the maps and queues the branch computed,
\* or the exception that left the loop
Done(c, kind, payload, crash, uc, ru, db, oq) ==
  /\ inbound_queue' = Tail(inbound_queue)
  /\ running' = ~crash
  /\ user_clients' = IF crash THEN user_clients ELSE uc
  /\ room_users' = IF crash THEN room_users ELSE ru
  /\ db_rooms' = IF crash THEN db_rooms ELSE db
  /\ outbound_queue' = IF crash THEN outbound_queue ELSE oq
  /\ last' = [cmd |-> Cmd, kind |-> kind, state |-> state[c], username |-> username[c],
              roomname |-> roomname[c], targets |-> targets[c], crashed |-> crash]
  /\ registered' = [registered EXCEPT ![c] =
                      @ \cup {n \in DOMAIN user_clients' : n \notin DOMAIN user_clients}]
  /\ roundTrip' = NextTrip(c, kind, payload)
  /\ madePublic' = NextPublic(c, kind)
  /\ \E caught \in SUBSET (IF crash THEN {} ELSE Overtaken(ru)) :
        room_iter' = [cc \in Clients |->
                        IF cc \in caught
                          THEN {room_users[Head(outbound_queue[cc])[4]]}
                          ELSE room_iter[cc]]
  /\ UNCHANGED <<state, username, roomname, targets, threads, script, sentLines, framer>>

\* the event at the head of the queue is a line of a client that is not NEW,
\* and decode_msg gives it the kind kind
IsMsg(kind) ==
  /\ running
  /\ inbound_queue # <<>>
  /\ Cmd[1] = "MSG"
  /\ state[Cmd[2]] # "NEW"
  /\ Cmd[3] # False
  /\ decode_msg(Cmd[3])[1] = kind

Payload == decode_msg(Cmd[3])[2]

DispatchNewClient ==
  /\ running
  /\ inbound_queue # <<>>
  /\ Cmd[1] = "NEW_CLIENT"
  /\ LET client == Cmd[2]
     IN Done(client, "NEW_CLIENT", None, FALSE, user_clients, room_users, db_rooms,
             Put(Put(outbound_queue, client, <<"BANNER", Banner>>), client, <<"LOGIN">>))

\* a dispatcher that refuses a login name and does not ask for another
RefuseSilently(oq, client, d) == Put(oq, client, d)

\* client.outbound_queue.put((d,)); client.outbound_queue.put((CserverCmd.LOGIN,))
Refuse(oq, client, d) == Put(Put(oq, client, d), client, <<"LOGIN">>)

\* a dispatcher that records a name only while no name is recorded
RegisterFirst(uc, name, client) == IF DOMAIN uc = {} THEN (name :> client) ELSE uc

\* user_clients[username] = client
Register(uc, name, client) == (name :> client) @@ uc

\* a line of a NEW client is its login name; _username_re.match(False)
\* raises TypeError
DispatchLogin ==
  /\ running
  /\ inbound_queue # <<>>
  /\ Cmd[1] = "MSG"
  /\ state[Cmd[2]] = "NEW"
  /\ LET client == Cmd[2]
         name == Cmd[3]
     IN IF name = False
          THEN Done(client, "LOGIN", name, TRUE, user_clients, room_users, db_rooms,
                    outbound_queue)
        ELSE IF name \in DOMAIN user_clients
          THEN Done(client, "LOGIN", name, FALSE, user_clients, room_users, db_rooms,
                    Refuse(outbound_queue, client, <<"EXISTING_USER">>))
        ELSE IF ~name_re_match(name)
          THEN Done(client, "LOGIN", name, FALSE, user_clients, room_users, db_rooms,
                    Refuse(outbound_queue, client, <<"INVALID_USERNAME">>))
        ELSE Done(client, "LOGIN", name, FALSE, Register(user_clients, name, client),
                  room_users, db_rooms,
                  Put(outbound_queue, client, <<"WELCOME_USER", name>>))

\* msgs.decode_msg(False): False.strip() raises AttributeError
DispatchFailure ==
  /\ running
  /\ inbound_queue # <<>>
  /\ Cmd[1] = "MSG"
  /\ state[Cmd[2]] # "NEW"
  /\ Cmd[3] = False
  /\ Done(Cmd[2], "FAILURE", None, TRUE, user_clients, room_users, db_rooms, outbound_queue)

\* /rooms
DispatchRooms ==
  /\ IsMsg("ROOMS_CMD")
  /\ LET client == Cmd[2]
     IN IF \E r \in DOMAIN room_users : SortFails(room_users[r])
          THEN Done(client, "ROOMS_CMD", None, TRUE, user_clients, room_users, db_rooms,
                    outbound_queue)
        ELSE Done(client, "ROOMS_CMD", None, FALSE, user_clients, room_users, db_rooms,
                  Put(outbound_queue, client, <<"SHOW_ROOMS", get_room_list(room_users)>>))

\* a line that starts with "/" and with no command
DispatchUnknown ==
  /\ IsMsg("UNKNOWN_CMD")
  /\ Done(Cmd[2], "UNKNOWN_CMD", None, FALSE, user_clients, room_users, db_rooms,
          Put(outbound_queue, Cmd[2], <<"INVALID_CMD">>))

DispatchCreate ==
  /\ IsMsg("CREATE_ROOM_CMD")
  /\ LET client == Cmd[2]
         room == Payload
     IN IF room \in DOMAIN room_users
          THEN Done(client, "CREATE_ROOM_CMD", room, FALSE, user_clients, room_users, db_rooms,
                    Put(outbound_queue, client, <<"EXISTING_ROOM", room>>))
        ELSE IF ~name_re_match(room)
          THEN Done(client, "CREATE_ROOM_CMD", room, FALSE, user_clients, room_users, db_rooms,
                    Put(outbound_queue, client, <<"INVALID_ROOMNAME">>))
        ELSE Done(client, "CREATE_ROOM_CMD", room, FALSE, user_clients,
                  (room :> {}) @@ room_users, db_rooms \cup {room},
                  [cc \in Clients |->
                     IF cc = client
                       THEN Append(outbound_queue[cc], <<"CREATE_ROOM", username[client], room>>)
                     ELSE IF state[cc] # "NEW"
                       THEN outbound_queue[cc]
                              \o Rep(<<"SEE_CREATE_ROOM", username[client], room>>, Mult(cc))
                     ELSE outbound_queue[cc]])

\* a dispatcher that goes through all the targets and names the last one
\* that is not in the room
last_invalid(tgts, occ) ==
  LET bad == {i \in 1..Len(tgts) : tgts[i] \notin occ}
  IN tgts[CHOOSE i \in bad : \A j \in bad : j <= i]

\* for t in targets: if t not in room_users[client.roomname]: ...; break
first_invalid(tgts, occ) ==
  LET bad == {i \in 1..Len(tgts) : tgts[i] \notin occ}
  IN tgts[CHOOSE i \in bad : \A j \in bad : i <= j]

DispatchPrivate ==
  /\ IsMsg("PRIVATE_CMD")
  /\ LET client == Cmd[2]
         tgts == Payload
         bad == {i \in 1..Len(tgts) : tgts[i] \notin room_users[roomname[client]]}
     IN IF state[client] # "IN_ROOM"
          THEN Done(client, "PRIVATE_CMD", tgts, FALSE, user_clients, room_users, db_rooms,
                    Put(outbound_queue, client, <<"NOT_IN_ROOM">>))
        ELSE IF Len(tgts) = 0
          THEN Done(client, "PRIVATE_CMD", tgts, FALSE, user_clients, room_users, db_rooms,
                    outbound_queue)
        ELSE IF roomname[client] \notin DOMAIN room_users
          THEN Done(client, "PRIVATE_CMD", tgts, TRUE, user_clients, room_users, db_rooms,
                    outbound_queue)
        ELSE IF bad # {}
          THEN Done(client, "PRIVATE_CMD", tgts, FALSE, user_clients, room_users, db_rooms,
                    Put(outbound_queue, client,
                        <<"INVALID_PRIVATE",
                          first_invalid(tgts, room_users[roomname[client]])>>))
        ELSE Done(client, "PRIVATE_CMD", tgts, FALSE, user_clients, room_users, db_rooms,
                  Put(outbound_queue, client, <<"PRIVATE", tgts>>))

DispatchPublic ==
  /\ IsMsg("PUBLIC_CMD")
  /\ LET client == Cmd[2]
     IN Done(client, "PUBLIC_CMD", None, FALSE, user_clients, room_users, db_rooms,
             Put(outbound_queue, client,
                 IF state[client] # "IN_ROOM" THEN <<"NOT_IN_ROOM">> ELSE <<"PUBLIC">>))

DispatchJoin ==
  /\ IsMsg("JOIN_CMD")
  /\ LET client == Cmd[2]
         room == Payload
         inroom == state[client] = "IN_ROOM"
         ru1 == IF inroom THEN Removed(client) ELSE room_users
         oq1 == IF inroom THEN LeaveQueues(outbound_queue, client) ELSE outbound_queue
         ru2 == [ru1 EXCEPT ![room] = @ \cup {username[client]}]
\* the fourth field stands for the reference to the set room_users[room];
         \* the fifth is history, the set as it is when the directive is put
         oq2 == Put(oq1, client, <<"JOIN_ROOM", username[client], room, room, ru2[room]>>)
     IN IF room \notin DOMAIN room_users
          THEN Done(client, "JOIN_CMD", room, FALSE, user_clients, room_users, db_rooms,
                    Put(outbound_queue, client, <<"INVALID_ROOM", room>>))
        ELSE IF inroom /\ RemoveFails(client)
          THEN Done(client, "JOIN_CMD", room, TRUE, user_clients, room_users, db_rooms,
                    outbound_queue)
        ELSE Done(client, "JOIN_CMD", room, FALSE, user_clients, ru2, db_rooms,
                  PutRoom(oq2, client, room, <<"SEE_JOIN_ROOM", username[client], room>>))

DispatchLeave ==
  /\ IsMsg("LEAVE_CMD")
  /\ LET client == Cmd[2]
     IN IF state[client] # "IN_ROOM"
          THEN Done(client, "LEAVE_CMD", None, FALSE, user_clients, room_users, db_rooms,
                    Put(outbound_queue, client, <<"NOT_IN_ROOM">>))
        ELSE IF RemoveFails(client)
          THEN Done(client, "LEAVE_CMD", None, TRUE, user_clients, room_users, db_rooms,
                    outbound_queue)
        ELSE Done(client, "LEAVE_CMD", None, FALSE, user_clients, Removed(client), db_rooms,
                  LeaveQueues(outbound_queue, client))

DispatchQuit ==
  /\ IsMsg("QUIT_CMD")
  /\ LET client == Cmd[2]
         inroom == state[client] = "IN_ROOM"
         ru1 == IF inroom THEN Removed(client) ELSE room_users
         oq1 == IF inroom THEN LeaveQueues(outbound_queue, client) ELSE outbound_queue
         uc1 == [n \in DOMAIN user_clients \ {username[client]} |-> user_clients[n]]
     IN IF inroom /\ RemoveFails(client)
          THEN Done(client, "QUIT_CMD", None, TRUE, user_clients, room_users, db_rooms,
                    outbound_queue)
        ELSE Done(client, "QUIT_CMD", None, FALSE, uc1, ru1, db_rooms,
                  Put(oq1, client, <<"QUIT">>))

\* [ user_clients[t] for t in client.targets ] raises KeyError
ChatFails(tgts) ==
  tgts # NoTargets /\ \E i \in 1..Len(tgts) : tgts[i] \notin DOMAIN user_clients

\* how many times cc occurs in target_clients
Targeted(client, tgts, cc) ==
  IF tgts = NoTargets
    THEN Mult(cc)
    ELSE Cardinality({i \in 1..Len(tgts) : user_clients[tgts[i]] = cc})
           + (IF cc = client THEN 1 ELSE 0)

\* the outbound queues after the fan-out of a chat line of client under the targets tgts
ChatQueues(client, tgts, text) ==
  [cc \in Clients |->
     IF state[cc] = "IN_ROOM" /\ roomname[cc] = roomname[client]
       THEN outbound_queue[cc] \o Rep(<<"MSG", username[client], text>>, Targeted(client, tgts, cc))
       ELSE outbound_queue[cc]]

DispatchChat ==
  /\ IsMsg("ALL_CHAT")
  /\ LET client == Cmd[2]
     IN IF state[client] # "IN_ROOM"
          THEN Done(client, "ALL_CHAT", Payload, FALSE, user_clients, room_users, db_rooms,
                    Put(outbound_queue, client, <<"NOT_IN_ROOM">>))
        ELSE IF ChatFails(targets[client])
          THEN Done(client, "ALL_CHAT", Payload, TRUE, user_clients, room_users, db_rooms,
                    outbound_queue)
        ELSE Done(client, "ALL_CHAT", Payload, FALSE, user_clients, room_users, db_rooms,
                  ChatQueues(client, targets[client], Payload))

Dispatch ==
  \/ DispatchNewClient
  \/ DispatchLogin
  \/ DispatchFailure
  \/ DispatchRooms
  \/ DispatchUnknown
  \/ DispatchCreate
  \/ DispatchPrivate
  \/ DispatchPublic
  \/ DispatchJoin
  \/ DispatchLeave
  \/ DispatchQuit
  \/ DispatchChat

Next ==
  \/ \E c \in Clients : Accept(c)
  \/ Announce
  \/ \E c \in Clients : ClientLine(c)
  \/ \E c \in Clients : ClientDrop(c)
  \/ \E c \in Clients : InboundEOF(c)
  \/ \E c \in Clients : InboundError(c)
  \/ \E c \in Clients : OutboundStep(c)
  \/ Dispatch

Spec == Init /\ [][Next]_vars

\* every thread of the server that can take a step eventually takes one; the
\* peers of the clients are under no obligation
Fairness ==
  /\ WF_vars(Announce)
  /\ WF_vars(Dispatch)
  /\ \A c \in Clients : WF_vars(InboundEOF(c))
  /\ \A c \in Clients : WF_vars(OutboundStep(c))

FairSpec == Spec /\ Fairness

\* a turn of the dispatcher loop, told by what every turn, and no step of
\* another thread, does to the inbound queue: cmd = cmd_queue.get()
DispatcherTurn ==
  /\ running
  /\ inbound_queue # <<>>
  /\ inbound_queue' = Tail(inbound_queue)

\* the same, but for the outbound thread of the first session, which may stop
\* for ever with directives on its queue (a peer that does not read blocks
\* _send)
StallFairness ==
  /\ WF_vars(Announce)
  /\ WF_inbound_queue(DispatcherTurn)
  /\ \A c \in Clients : WF_vars(InboundEOF(c))
  /\ \A c \in Clients \ {1} : WF_vars(OutboundStep(c))

StallSpec == Spec /\ StallFairness

(***************************************************************************)
(* CserverClient._recv, followed for one session byte by byte: the socket  *)
(* delivers a stream of bytes cut into reads, and every call of recv       *)
(* returns the next read.                                                  *)
(***************************************************************************)
MaxStream == 4
Bytes == {"a", "b", "\n"}

Streams == UNION {[1..n -> Bytes] : n \in 1..MaxStream}

\* the ways of cutting a stream into reads of at least one byte
RECURSIVE Cuts(_)
Cuts(s) ==
  IF s = <<>> THEN {<<>>}
  ELSE UNION {{<<SubSeq(s, 1, n)>> \o rest : rest \in Cuts(SubSeq(s, n + 1, Len(s)))} :
                n \in 1..Len(s)}

\* str.find('\n') + 1, or 0
find_nl(s) ==
  IF \E i \in 1..Len(s) : s[i] = "\n"
    THEN CHOOSE i \in 1..Len(s) : s[i] = "\n" /\ \A j \in 1..(i - 1) : s[j] # "\n"
    ELSE 0

\* str.splitlines of a str whose only line boundary is '\n'
RECURSIVE splitlines(_)
splitlines(s) ==
  IF s = <<>> THEN <<>>
  ELSE IF find_nl(s) = 0 THEN <<s>>
  ELSE <<SubSeq(s, 1, find_nl(s) - 1)>> \o splitlines(SubSeq(s, find_nl(s) + 1, Len(s)))

\* '\n'.join(lines)
RECURSIVE join(_)
join(lines) ==
  IF lines = <<>> THEN <<>>
  ELSE IF Len(lines) = 1 THEN lines[1]
  ELSE lines[1] \o <<"\n">> \o join(Tail(lines))

FramerInit ==
  /\ ServerInit
  /\ script = [c \in Clients |-> {}]
  /\ recv_str = <<>>
  /\ stream = <<>>
  /\ returned = <<>>
  /\ framing \in {"open", "closing"}
  /\ reads \in UNION {Cuts(s) : s \in Streams}

\* m = self._csocket.recv(RECV_SIZE) returns bytes: they join _recv_str, and
\* with a '\n' in it _recv returns the first line and keeps the other lines
RecvBytes ==
  /\ framing \in {"open", "closing"}
  /\ reads # <<>>
  /\ LET buf == recv_str \o Head(reads)
         lines == splitlines(buf)
     IN /\ reads' = Tail(reads)
        /\ stream' = stream \o Head(reads)
        /\ IF find_nl(buf) > 0
             THEN /\ recv_str' = join(Tail(lines))
                  /\ returned' = Append(returned, lines[1])
             ELSE /\ recv_str' = buf
                  /\ returned' = returned
  /\ UNCHANGED <<session, threads, maps, outbound_queue, inbound_queue, running, script,
                 sentLines, history, framing>>

\* the peer has closed the connection: recv returns b'' and _recv None
RecvNone ==
  /\ framing = "closing"
  /\ reads = <<>>
  /\ framing' = "closed"
  /\ returned' = Append(returned, None)
  /\ UNCHANGED <<session, threads, maps, outbound_queue, inbound_queue, running, script,
                 sentLines, history, recv_str, reads, stream>>

FramerNext == RecvBytes \/ RecvNone

FramerSpec == FramerInit /\ [][FramerNext]_vars

(***************************************************************************)
(* What the claims speak of.                                               *)
(***************************************************************************)
\* this step is the dispatcher's, and it processes a line of kind kind
Processes(kind) == IsMsg(kind) /\ inbound_queue' = Tail(inbound_queue)

\* this step puts the directive d on the outbound queue of cc
Got(cc, d) ==
  \E i \in (Len(outbound_queue[cc]) + 1)..Len(outbound_queue'[cc]) :
     /\ outbound_queue'[cc][i][1] = d[1]
     /\ outbound_queue'[cc][i] = d

\* the clients on whose queue this step puts a chat line
ChatRecipients ==
  {cc \in Clients :
     \E i \in (Len(outbound_queue[cc]) + 1)..Len(outbound_queue'[cc]) :
        outbound_queue'[cc][i][1] = "MSG"}

Occupants(room) == IF room \in DOMAIN room_users THEN room_users[room] ELSE {}

\* the occupancy set of room after this step
OccupantsAfter(room) == IF room \in DOMAIN room_users' THEN room_users'[room] ELSE {}

SessionsOf(names) == {user_clients[n] : n \in names \cap DOMAIN user_clients}

Elements(seq) == {seq[i] : i \in 1..Len(seq)}

Drained == inbound_queue = <<>> /\ \A c \in Clients : outbound_queue[c] = <<>>

\* C1: no two distinct sessions hold the same username (other than None
\* and the empty name) in their username field at the same time; stated of
\* the sessions whose outbound loop is still running.
C1_UniqueUsername ==
  \A c1, c2 \in Clients :
     (/\ c1 # c2
      /\ outb[c1] = "run"
      /\ outb[c2] = "run"
      /\ username[c1] # None
      /\ username[c1] # <<>>)
       => username[c1] # username[c2]

\* C2: a username is a member of at most one room's occupancy set: the
\* occupancy sets of two different rooms of room_users are disjoint.
C2_OneRoomPerUser ==
  \A r1, r2 \in DOMAIN room_users : r1 # r2 => room_users[r1] \cap room_users[r2] = {}

\* C3: the dispatcher loop never terminates abnormally: no event it takes
\* from the inbound queue raises an error that leaves the loop.
C3_DispatcherNeverFails == running

\* C4: a chat line of user U, IN_ROOM with private targets set, is put on the
\* queues of exactly the sessions of the users among U and the targets that
\* are in the occupancy set of U's room.
C4_PrivateFanout ==
  [][ (Processes("ALL_CHAT") /\ state[Cmd[2]] = "IN_ROOM" /\ targets[Cmd[2]] # NoTargets)
      => ChatRecipients =
           SessionsOf(({username[Cmd[2]]} \cup Elements(targets[Cmd[2]]))
                        \cap Occupants(roomname[Cmd[2]])) ]_vars

\* C5: a chat line of an IN_ROOM session with no targets is put on the queues
\* of exactly the sessions of the users in the occupancy set of the sender's
\* room, the sender and the users whose JOIN_ROOM is still queued included.
C5_BroadcastFanout ==
  [][ (Processes("ALL_CHAT") /\ state[Cmd[2]] = "IN_ROOM" /\ targets[Cmd[2]] = NoTargets)
      => ChatRecipients = SessionsOf(Occupants(roomname[Cmd[2]])) ]_vars

\* C6: after /join R and then /leave of a LOGGED_IN session, both processed
\* one after the other and every queue drained, R's occupancy set is what it
\* was before the join.
C6_JoinLeaveRoundTrip ==
  (roundTrip.stage = "left" /\ Drained) => room_users[roundTrip.room] = roundTrip.before

\* C7: processing /quit of an IN_ROOM session of user U in room R removes U
\* from R's occupancy set, puts SEE_LEAVE_ROOM on the queue of every
\* remaining occupant of R, removes U from user_clients and puts QUIT on the
\* quitter's queue; a login line U of a NEW session processed next is
\* answered with WELCOME_USER.
C7_QuitThenRelogin ==
  [][ /\ (Processes("QUIT_CMD") /\ state[Cmd[2]] = "IN_ROOM")
         => /\ username[Cmd[2]] \notin OccupantsAfter(roomname[Cmd[2]])
            /\ \A v \in OccupantsAfter(roomname[Cmd[2]]) :
                  v \in DOMAIN user_clients =>
                    Got(user_clients[v],
                        <<"SEE_LEAVE_ROOM", username[Cmd[2]], roomname[Cmd[2]]>>)
            /\ username[Cmd[2]] \notin DOMAIN user_clients'
            /\ Got(Cmd[2], <<"QUIT">>)
      /\ (/\ last.kind = "QUIT_CMD"
          /\ last.state = "IN_ROOM"
          /\ running
          /\ inbound_queue # <<>>
          /\ Cmd[1] = "MSG"
          /\ state[Cmd[2]] = "NEW"
          /\ Cmd[3] = last.username
          /\ inbound_queue' = Tail(inbound_queue))
         => Got(Cmd[2], <<"WELCOME_USER", last.username>>) ]_vars

\* C8: once a send of a session's outbound loop has failed and the
\* dispatcher has processed every event of the inbound queue, no entry of
\* user_clients maps to that session and no occupancy set holds a name the
\* session registered.
C8_FailedSessionReconciled ==
  \A c \in Clients :
     (outb[c] = "failed" /\ running /\ inbound_queue = <<>>)
       => /\ \A n \in DOMAIN user_clients : user_clients[n] # c
          /\ \A r \in DOMAIN room_users : \A u \in registered[c] :
                u \in room_users[r] => (u \in DOMAIN user_clients /\ user_clients[u] # c)

\* C9: when the peer of a LOGGED_IN or IN_ROOM session has closed the
\* connection and the inbound loop has returned on the end of the stream,
\* the session's entry of user_clients is eventually removed.
C9_DropEventuallyReclaimed ==
  \A c \in Clients :
     (/\ sock[c] = "peer_closed"
      /\ inb[c] = "done"
      /\ state[c] \in {"LOGGED_IN", "IN_ROOM"}
      /\ \E n \in DOMAIN user_clients : user_clients[n] = c)
       ~> (\A n \in DOMAIN user_clients : user_clients[n] # c)

\* C10: once /public of an IN_ROOM session with targets set has been
\* processed, every chat line of the session processed while it stays in the
\* room goes to the sessions a chat line with no targets goes to.
C10_PublicRestoresBroadcast ==
  [][ (Processes("ALL_CHAT") /\ state[Cmd[2]] = "IN_ROOM" /\ Cmd[2] \in madePublic)
      => ChatRecipients =
           {cc \in Clients : Len(ChatQueues(Cmd[2], NoTargets, Payload)[cc])
                               > Len(outbound_queue[cc])} ]_vars

\* this step is the dispatcher's, and it processes a line of a NEW session
ProcessesLogin ==
  /\ running
  /\ inbound_queue # <<>>
  /\ Cmd[1] = "MSG"
  /\ state[Cmd[2]] = "NEW"
  /\ inbound_queue' = Tail(inbound_queue)

\* the outbound queues of this step with the directives ds put on client's
After(client, ds) == [outbound_queue EXCEPT ![client] = @ \o ds]

\* C11: when the dispatcher processes a line of a NEW session that is a key
\* of user_clients, user_clients is left as it is and EXISTING_USER and then
\* LOGIN, and nothing else, are put on the queue of that session and on no
\* other queue.
C11_NameTaken ==
  [][ (ProcessesLogin /\ Cmd[3] \in DOMAIN user_clients)
      => /\ user_clients' = user_clients
         /\ outbound_queue' = After(Cmd[2], << <<"EXISTING_USER">>, <<"LOGIN">> >>) ]_vars

\* C11 case: the dispatcher has just answered a login line that was a key of
\* user_clients with EXISTING_USER
C11_NameTakenSeen ==
  /\ last.kind = "LOGIN"
  /\ last.cmd[3] \in DOMAIN user_clients
  /\ LET q == outbound_queue[last.cmd[2]]
     IN /\ Len(q) >= 2
        /\ q[Len(q) - 1][1] = "EXISTING_USER"
        /\ q[Len(q)][1] = "LOGIN"

\* a name as the specification wants it: not empty, and of letters, digits
\* and underscores only
ValidName(n) == n # <<>> /\ \A i \in 1..Len(n) : n[i] \in WordChars

\* C12: a login line of a NEW session is registered only if it is not empty
\* and consists of letters, digits and underscores; any other line that is
\* not a key of user_clients, the empty line included, leaves user_clients as
\* it is and is answered with INVALID_USERNAME and then LOGIN.
C12_LoginNameRule ==
  [][ (ProcessesLogin /\ Cmd[3] # False /\ Cmd[3] \notin DOMAIN user_clients)
      => IF ValidName(Cmd[3])
           THEN Got(Cmd[2], <<"WELCOME_USER", Cmd[3]>>)
           ELSE /\ user_clients' = user_clients
                /\ outbound_queue' = After(Cmd[2], << <<"INVALID_USERNAME">>, <<"LOGIN">> >>) ]_vars

\* the peer of c has sent one line, and the dispatcher has processed it
LoggedOn(c) ==
  /\ Len(sentLines[c]) = 1
  /\ \A i \in 1..Len(inbound_queue) :
        inbound_queue[i][1] = "MSG" => inbound_queue[i][2] # c

\* no peer has sent more than one line or closed its connection, and the
\* lines sent are valid names, no two of them the same
DistinctLogins ==
  /\ \A c \in Clients : Len(sentLines[c]) <= 1 /\ sock[c] \in {"none", "open"}
  /\ \A c \in Clients : sentLines[c] # <<>> => ValidName(sentLines[c][1])
  /\ \A c, d \in Clients :
        (c # d /\ sentLines[c] # <<>> /\ sentLines[d] # <<>>) => sentLines[c] # sentLines[d]

\* the session c has been sent WELCOME_USER for the name n
Welcomed(c, n) ==
  \/ \E i \in 1..Len(outbound_queue[c]) :
        /\ outbound_queue[c][i][1] = "WELCOME_USER"
        /\ outbound_queue[c][i][2] = n
  \/ state[c] = "LOGGED_IN" /\ username[c] = n

\* C13: when the sessions each send one login line, the names valid and no two
\* the same, in any interleaving, every session whose line has been processed
\* is sent WELCOME_USER for its name, and user_clients has exactly one entry
\* for each such name, which maps the name to the session that sent it.
C13_ConcurrentLogins ==
  DistinctLogins
    => /\ running
       /\ \A c \in Clients :
             LoggedOn(c) => /\ sentLines[c][1] \in DOMAIN user_clients
                            /\ user_clients[sentLines[c][1]] = c
                            /\ Welcomed(c, sentLines[c][1])
       /\ \A n \in DOMAIN user_clients :
             \E c \in Clients : LoggedOn(c) /\ sentLines[c][1] = n

\* C13 case: every session has sent a login line, the names differ, and the
\* dispatcher has processed them all
C13_AllLoggedOn ==
  /\ DistinctLogins
  /\ \A c \in Clients : LoggedOn(c)
  /\ Cardinality(DOMAIN user_clients) = NumClients

\* C13 case: the login lines of two sessions wait for the dispatcher together
C13_LoginsTogether ==
  /\ DistinctLogins
  /\ \E i, j \in 1..Len(inbound_queue) :
        /\ i # j
        /\ inbound_queue[i][1] = "MSG"
        /\ inbound_queue[j][1] = "MSG"
        /\ inbound_queue[i][2] # inbound_queue[j][2]

\* the newline-terminated lines of the bytes s, without their terminators
RECURSIVE TerminatedLines(_)
TerminatedLines(s) ==
  IF \A i \in 1..Len(s) : s[i] # "\n" THEN <<>>
  ELSE LET n == CHOOSE i \in 1..Len(s) : s[i] = "\n" /\ \A j \in 1..(i - 1) : s[j] # "\n"
       IN <<SubSeq(s, 1, n - 1)>> \o TerminatedLines(SubSeq(s, n + 1, Len(s)))

IsPrefix(a, b) == Len(a) <= Len(b) /\ SubSeq(b, 1, Len(a)) = a

IsLine(x) == x # None

\* the lines the calls of _recv have returned
ReturnedLines == SelectSeq(returned, IsLine)

\* C14: for every stream of bytes and every way of cutting it into reads, the
\* calls of _recv return the newline-terminated lines of the bytes received,
\* one a call, in order, each once and as it was sent; and once the socket
\* has no further bytes, every complete line received has been returned.
C14_FramerReturnsLines ==
  framing # "off"
    => /\ IsPrefix(ReturnedLines, TerminatedLines(stream))
       /\ reads = <<>> => ReturnedLines = TerminatedLines(stream)

\* C15: when recv of a session's socket fails, _recv reports the end of the
\* stream and the inbound loop returns: no session's inbound loop goes on
\* after a failure, and no event of inbound_queue carries the failure to the
\* dispatcher as a line.
C15_RecvFailureEndsLoop ==
  /\ \A c \in Clients : inb[c] # "failing"
  /\ \A i \in 1..Len(inbound_queue) :
        inbound_queue[i][1] = "MSG" => inbound_queue[i][3] # False

\* the targets of the session c that are not in the occupancy set of c's room
StaleTargets(c) == Elements(targets[c]) \ Occupants(roomname[c])

\* C16: a chat line of user U, IN_ROOM with private targets of which some
\* target A is no longer in the occupancy set of U's room, is processed
\* without error: no chat line is put on the queue of a session of A, and
\* the line is put on the queue of U and of the sessions of the targets that
\* are in the room.
C16_StaleTargetSkipped ==
  [][ (/\ Processes("ALL_CHAT")
       /\ state[Cmd[2]] = "IN_ROOM"
       /\ targets[Cmd[2]] # NoTargets
       /\ StaleTargets(Cmd[2]) # {})
      => /\ running'
         /\ Cmd[2] \in ChatRecipients
         /\ \A cc \in Clients : username[cc] \in StaleTargets(Cmd[2]) => cc \notin ChatRecipients
         /\ SessionsOf(Elements(targets[Cmd[2]]) \cap Occupants(roomname[Cmd[2]]))
              \subseteq ChatRecipients ]_vars

\* the room lists of the SHOW_ROOMS directives this step puts on the queue of cc
RoomListsPut(cc) ==
  {outbound_queue'[cc][i][2] :
     i \in {j \in (Len(outbound_queue[cc]) + 1)..Len(outbound_queue'[cc]) :
              outbound_queue'[cc][j][1] = "SHOW_ROOMS"}}

C18_RegistryMatchesSessions ==
  Drained => \A n \in DOMAIN user_clients : username[user_clients[n]] = n

\* C19: in every state in which inbound_queue and every outbound queue are
\* empty, a username u is in the occupancy set of room R if and only if some
\* session has the username u, the state IN_ROOM and the roomname R.
C19_RoomsMatchSessions ==
  Drained
    => \A r \in DOMAIN room_users :
         room_users[r] = {username[c] : c \in {d \in Clients : state[d] = "IN_ROOM"
                                                              /\ roomname[d] = r}}

\* the NEW_CLIENT event of the session c is still to be processed
Unannounced(c) ==
  \/ pending = c
  \/ \E i \in 1..Len(inbound_queue) :
        inbound_queue[i][1] = "NEW_CLIENT" /\ inbound_queue[i][2] = c

\* C20: the dispatcher processes the NEW_CLIENT event of a session before
\* any MSG event of that session, so that BANNER and LOGIN are the first
\* directives of the session's outbound queue: no step of the dispatcher
\* processes a MSG event of a session whose NEW_CLIENT is still to come.
C20_AnnouncedBeforeLines ==
  [][ (/\ running
       /\ inbound_queue # <<>>
       /\ Cmd[1] = "MSG"
       /\ inbound_queue' = Tail(inbound_queue))
      => ~Unannounced(Cmd[2]) ]_vars

\* C21: when the dispatcher processes /private with a list of names from a
\* session in the state IN_ROOM whose roomname is a room, and some name of
\* the list is not in the occupancy set of that room, it puts one
\* INVALID_PRIVATE, naming the first such name of the list, on the queue of
\* that session, puts nothing else on any queue (no PRIVATE), and leaves the
\* targets of every session as they were.
C21_InvalidPrivateTarget ==
  [][ (/\ Processes("PRIVATE_CMD")
       /\ state[Cmd[2]] = "IN_ROOM"
       /\ roomname[Cmd[2]] \in DOMAIN room_users
       /\ \E i \in 1..Len(Payload) : Payload[i] \notin Occupants(roomname[Cmd[2]]))
      => /\ \E i \in 1..Len(Payload) :
               /\ Payload[i] \notin Occupants(roomname[Cmd[2]])
               /\ \A j \in 1..(i - 1) : Payload[j] \in Occupants(roomname[Cmd[2]])
               /\ outbound_queue' = After(Cmd[2], << <<"INVALID_PRIVATE", Payload[i]>> >>)
         /\ targets' = targets
         /\ running' ]_vars

\* C21 case: the dispatcher has just refused a /private of two names whose
\* first name is in the room of the session, and named the second
C21_SecondTargetNamed ==
  /\ last.kind = "PRIVATE_CMD"
  /\ last.state = "IN_ROOM"
  /\ last.roomname \in DOMAIN room_users
  /\ Len(decode_msg(last.cmd[3])[2]) = 2
  /\ decode_msg(last.cmd[3])[2][1] \in room_users[last.roomname]
  /\ LET q == outbound_queue[last.cmd[2]]
     IN Len(q) >= 1 /\ q[Len(q)] = <<"INVALID_PRIVATE", decode_msg(last.cmd[3])[2][2]>>

\* the dispatcher processes a line that decode_msg reads as /quit, whatever
\* the state of the session it comes from
ProcessesQuitLine ==
  /\ running
  /\ inbound_queue # <<>>
  /\ Cmd[1] = "MSG"
  /\ Cmd[3] # False
  /\ decode_msg(Cmd[3])[1] = "QUIT_CMD"
  /\ inbound_queue' = Tail(inbound_queue)

\* C22: a /quit line is handled as a quit in every state of its session,
\* NEW included (the /quit that the outbound loop of a NEW session queues on
\* its way out too): the step that processes it puts QUIT on the queue of
\* that session and adds no key to user_clients.
C22_QuitInAnyState ==
  [][ ProcessesQuitLine
      => /\ Got(Cmd[2], <<"QUIT">>)
         /\ DOMAIN user_clients' \subseteq DOMAIN user_clients ]_vars

\* C23: when the dispatcher processes /create with a name that is not a room
\* and is empty or holds a character other than a letter, a digit or an
\* underscore, it puts INVALID_ROOMNAME on the queue of the session the line
\* comes from and nothing on any other queue, and leaves room_users and the
\* rooms of the database as they were.
C23_RoomNameRule ==
  [][ (/\ Processes("CREATE_ROOM_CMD")
       /\ Payload \notin DOMAIN room_users
       /\ ~ValidName(Payload))
      => /\ outbound_queue' = After(Cmd[2], << <<"INVALID_ROOMNAME">> >>)
         /\ room_users' = room_users
         /\ db_rooms' = db_rooms ]_vars

\* the outbound thread of c consumes the JOIN_ROOM directive at the head of
\* its queue in this step
ConsumesJoinRoom(c) ==
  /\ outb[c] = "run"
  /\ outbound_queue[c] # <<>>
  /\ Head(outbound_queue[c])[1] = "JOIN_ROOM"
  /\ outbound_queue'[c] = Tail(outbound_queue[c])

\* the names the outbound thread of c lists for the JOIN_ROOM directive at the
\* head of its queue: the members of the set the directive refers to
RenderedList(c) == room_users[Head(outbound_queue[c])[4]]

\* C24: the occupant list of a JOIN_ROOM directive is fixed when the
\* directive is put: whenever an outbound thread consumes JOIN_ROOM for the
\* room X, the loop over the list ends, the names it lists are the occupancy
\* set of X as it was when the dispatcher processed the /join, the joiner
\* among them, and the step leaves the joiner in the state IN_ROOM with the
\* roomname X.
C24_JoinListFixed ==
  [][ \A c \in Clients :
        ConsumesJoinRoom(c)
          => LET d == Head(outbound_queue[c])
             IN /\ ~IterFails(c)
                /\ RenderedList(c) = d[5]
                /\ d[2] \in d[5]
                /\ state'[c] = "IN_ROOM"
                /\ roomname'[c] = d[3] ]_vars

\* how many chat lines this step puts on the queue of cc
ChatCopies(cc) ==
  Cardinality({i \in (Len(outbound_queue[cc]) + 1)..Len(outbound_queue'[cc]) :
                 outbound_queue'[cc][i][1] = "MSG"})

\* C26: the step that processes a chat line puts at most one MSG directive
\* on the queue of any session, whatever the targets of the sender (its own
\* name, a name twice) and whatever user_clients holds.
C26_OneCopyEach ==
  [][ Processes("ALL_CHAT") => \A cc \in Clients : ChatCopies(cc) <= 1 ]_vars

\* a line of the session c waits on the inbound queue
HasEventOf(c) ==
  \E i \in 1..Len(inbound_queue) : inbound_queue[i][1] = "MSG" /\ inbound_queue[i][2] = c

\* the outbound thread of c is in its loop and has a directive to consume
Stalled(c) == outb[c] = "run" /\ outbound_queue[c] # <<>>

\* no connection has been closed, by a peer or by the server
NoneClosed == \A c \in Clients : sock[c] \in {"none", "open"}

\* C25: with the dispatcher and the threads of the other session taking
\* their steps, a line of the other session that waits on the inbound
\* queue is eventually processed, and a directive on the queue of the other
\* session is eventually consumed, in every behaviour in which the outbound
\* thread of the first session stops for ever with directives on its queue
\* and no connection is closed.
C25_StalledSessionApart ==
  /\ HasEventOf(2) ~> (~HasEventOf(2) \/ ~Stalled(1) \/ ~NoneClosed)
  /\ (outbound_queue[2] # <<>>)
       ~> (outbound_queue[2] = <<>> \/ ~Stalled(1) \/ ~NoneClosed)

=============================================================================
